---- MODULE Spec2Model ----
(***************************************************************************)
(* Model of the binary Merkle trie of src/trie.go.                         *)
(*                                                                         *)
(* The heap of nodes is a sequence: a *node is an index into it, 0 is the  *)
(* nil pointer, and the root allocated by NewMerkleTrie is node 1.  A      *)
(* []byte is a sequence of numbers 0..255; the nil slice is <<>> (callers  *)
(* pass non-empty keys).                                                   *)
(*                                                                         *)
(* node.add and the closure r of MaxDepth are recursive in the source.     *)
(* They are modelled by their call stacks: one frame per nested call, one  *)
(* step per statement, run to completion inside the action that models the *)
(* public method.  hash and traversePrint are recursive operators.         *)
(***************************************************************************)
EXTENDS Integers, Sequences, FiniteSets, TLC

VARIABLES
    heap,       \* the nodes: heap[p] is the node *p points to
    empty,      \* MerkleTrie.empty
    callerKeys, \* the keys the caller passes to Add
    status,     \* how the last Add ended: "ok", "panic" or "fatal"
    latest,     \* history: the [key, value] of the last returned Add per key
    lastKey,    \* history: the key of the last Add, <<>> before the first
    lastHit,    \* history: the last Add's key was on a leaf when it was called
    lastDeep    \* history: the deepest node (in edges from the root) the last Add visited

vars == <<heap, empty, callerKeys, status, latest, lastKey, lastHit, lastDeep>>

----------------------------------------------------------------------------
(* Bounds of the model *)

\* Number of distinct keys a trie holds at most.
MaxKeys == 3
\* Frames of nested calls the runtime's stack holds before the program dies.
StackLimit == 600
\* Statements one public call executes at most before its stack is empty.
MaxSteps == 4096

\* The byte lengths of fixed-length keys: short keys, and keys as long as
\* and longer than a 256-bit digest.
ShortLens == {1, 2}
LongLens == {32, 33}
FirstBytes == {0, 128}
LastBytes == {0, 1, 128}
LongLastBytes == {0, 1}
Values == {<<1>>, <<2>>}

\* The keys of byte length L: a first byte, zero bytes, a last byte.
KeysOf(L, firsts, lasts) ==
    { [i \in 1..L |-> IF i = L THEN b ELSE IF i = 1 THEN a ELSE 0] :
        a \in firsts, b \in lasts }

Keys(L) == KeysOf(L, FirstBytes, LastBytes)
LongKeys(L) == KeysOf(L, FirstBytes, LongLastBytes)
MixedKeys == KeysOf(1, FirstBytes, LastBytes) \cup KeysOf(2, FirstBytes, LongLastBytes)

----------------------------------------------------------------------------
(* Machine integers *)

\* The values of Go's byte type.
ByteMod == 256

RECURSIVE Pow2(_)
Pow2(n) == IF n = 0 THEN 1 ELSE 2 * Pow2(n - 1)

\* a & b on bytes.
RECURSIVE BitAnd(_, _)
BitAnd(a, b) ==
    IF a = 0 \/ b = 0 THEN 0
    ELSE 2 * BitAnd(a \div 2, b \div 2) + (IF a % 2 = 1 /\ b % 2 = 1 THEN 1 ELSE 0)

----------------------------------------------------------------------------
(* Nodes *)

NilPtr == 0
NilBytes == <<>>

\* Mutant: the mask counts from the lowest bit of the byte.
newNodeLowBitFirst(level, key, value) ==
    [ level  |-> level,
      number |-> level \div 8,
      bit    |-> Pow2(level % 8) % ByteMod,
      left   |-> NilPtr,
      right  |-> NilPtr,
      key    |-> key,
      value  |-> value ]

\* newNode(level, key, value); level is a byte.
newNode(level, key, value) ==
    [ level  |-> level,
      number |-> level \div 8,
      bit    |-> Pow2(7 - (level % 8)) % ByteMod,
      left   |-> NilPtr,
      right  |-> NilPtr,
      key    |-> key,
      value  |-> value ]

\* n.level+1 as the byte expression the source passes to newNode.
childLevel(n) == (n.level + 1) % ByteMod

\* NewMerkleTrie(): the root placeholder.
NewMerkleTrie == [heap |-> <<newNode(0, NilBytes, NilBytes)>>, empty |-> TRUE]

Root == 1

----------------------------------------------------------------------------
(* node.add: the call stack of the nested n.add(key, value) calls.         *)
(* A frame is one call: the receiver n, its arguments, the statement it is *)
(* at, and (history) the receiver's number of edges from the root.         *)

addFrame(n, key, value, d) == [n |-> n, key |-> key, value |-> value, pc |-> "enter", d |-> d]

Top(c) == c.stack[Len(c.stack)]
Pop(c) == [c EXCEPT !.stack = SubSeq(c.stack, 1, Len(c.stack) - 1)]
SetPc(c, pc) == [c EXCEPT !.stack[Len(c.stack)].pc = pc]

\* A nested call: the runtime kills the program when its stack is full.
Call(c, fr) ==
    IF Len(c.stack) >= StackLimit
    THEN [c EXCEPT !.err = "stack"]
    ELSE [c EXCEPT !.stack = Append(c.stack, fr),
                   !.deep = IF fr.d > c.deep THEN fr.d ELSE c.deep]

\* Lines 119-136: the branch on one bit of key, into a fresh leaf or into
\* the child that is there.
addBranch(c) ==
    LET f == Top(c)
        n == c.heap[f.n]
    IN  IF n.number + 1 > Len(f.key)
        THEN [c EXCEPT !.err = "index", !.stack = <<>>]
        ELSE LET left == BitAnd(n.bit, f.key[n.number + 1]) = 0
                 child == IF left THEN n.left ELSE n.right
                 fresh == Len(c.heap) + 1
                 leaf == newNode(childLevel(n), f.key, f.value)
             IN  IF child = NilPtr
                 THEN SetPc([c EXCEPT
                         !.heap = Append(
                             IF left THEN [c.heap EXCEPT ![f.n].left = fresh]
                                     ELSE [c.heap EXCEPT ![f.n].right = fresh],
                             leaf)],
                         "demote")
                 ELSE Call(SetPc(c, "demote"), addFrame(child, f.key, f.value, f.d + 1))

SameKey(c) ==
    LET n == c.heap[Top(c).n]
    IN  n.key # NilBytes /\ n.key = Top(c).key

\* Mutant: the overwrite lacks its return and falls into the branch.
addEnterFallThrough(c) ==
    IF SameKey(c)
    THEN addBranch([c EXCEPT !.heap[Top(c).n].value = Top(c).value])
    ELSE addBranch(c)

\* Mutant: an equal key returns without storing the value.
addEnterNoOverwrite(c) ==
    IF SameKey(c) THEN Pop(c) ELSE addBranch(c)

\* Lines 114-117: an equal key overwrites the value and returns; else the
\* branch.
addEnter(c) ==
    IF SameKey(c)
    THEN Pop([c EXCEPT !.heap[Top(c).n].value = Top(c).value])
    ELSE addBranch(c)

\* Mutant: the receiver keeps its key beside its new child.
addDemoteKeep(c) == Pop(c)

\* Mutant: the receiver gives its key up and does not add it again.
addDemoteDrop(c) ==
    Pop([c EXCEPT !.heap[Top(c).n].key = NilBytes, !.heap[Top(c).n].value = NilBytes])

\* Lines 138-143: a receiver that still holds a key gives it up and adds it
\* to itself.
addDemote(c) ==
    LET f == Top(c)
        n == c.heap[f.n]
    IN  IF n.key # NilBytes
        THEN Call(SetPc([c EXCEPT !.heap[f.n].key = NilBytes,
                                  !.heap[f.n].value = NilBytes], "ret"),
                  addFrame(f.n, n.key, n.value, f.d))
        ELSE Pop(c)

\* One statement of the innermost call.
addStep(c) ==
    LET pc == Top(c).pc
    IN  IF pc = "enter" THEN addEnter(c)
        ELSE IF pc = "demote" THEN addDemote(c)
        ELSE Pop(c)

addDone(c) == c.stack = <<>> \/ c.err # ""

\* The calls run until the outermost returns or the program stops.
RECURSIVE addRun(_, _)
addRun(c, steps) ==
    IF addDone(c) \/ steps = 0 THEN c
    ELSE IF steps = 1 THEN addStep(c)
    ELSE addRun(addRun(c, steps \div 2), steps - steps \div 2)

\* n.add(key, value) on the node at p: the heap it leaves, how it ended
\* ("" for a return) and the deepest receiver.
addOutcome(c) ==
    [heap |-> c.heap,
     err |-> IF c.err = "" /\ c.stack # <<>> THEN "stack" ELSE c.err,
     deep |-> c.deep]

add(h, p, key, value) ==
    addOutcome(addRun([heap |-> h, stack |-> <<addFrame(p, key, value, 0)>>,
                       err |-> "", deep |-> 0], MaxSteps))

\* MerkleTrie.Add(key, value).
TrieAdd(t, key, value) ==
    IF t.empty
    THEN [heap |-> [t.heap EXCEPT ![Root].key = key, ![Root].value = value],
          empty |-> FALSE, err |-> "", deep |-> 0]
    ELSE [empty |-> t.empty] @@ add(t.heap, Root, key, value)

----------------------------------------------------------------------------
(* MerkleTrie.MaxDepth: the call stack of the closure r.                   *)

rFrame(n) == [n |-> n, pc |-> "enter", left |-> 0, right |-> 0]

\* The callee's result lands in the caller's left or right.
rReturn(c, v) ==
    LET k == Len(c.stack)
        rest == SubSeq(c.stack, 1, k - 1)
    IN  IF k = 1 THEN [stack |-> <<>>, ret |-> v]
        ELSE IF rest[k - 1].pc = "left"
        THEN [stack |-> [rest EXCEPT ![k - 1].left = v, ![k - 1].pc = "right"], ret |-> c.ret]
        ELSE [stack |-> [rest EXCEPT ![k - 1].right = v, ![k - 1].pc = "max"], ret |-> c.ret]

\* One statement of the innermost r(n), lines 51-67.
rStep(h, c) ==
    LET k == Len(c.stack)
        f == c.stack[k]
        n == h[f.n]
    IN  IF f.pc = "enter"
        THEN IF n.key # NilBytes THEN rReturn(c, n.level)
             ELSE [c EXCEPT !.stack[k].pc = "left"]
        ELSE IF f.pc = "left"
        THEN IF n.left # NilPtr THEN [c EXCEPT !.stack = Append(c.stack, rFrame(n.left))]
             ELSE [c EXCEPT !.stack[k].pc = "right"]
        ELSE IF f.pc = "right"
        THEN IF n.right # NilPtr THEN [c EXCEPT !.stack = Append(c.stack, rFrame(n.right))]
             ELSE [c EXCEPT !.stack[k].pc = "max"]
        ELSE rReturn(c, IF f.left > f.right THEN f.left ELSE f.right)

RECURSIVE rRun(_, _, _)
rRun(h, c, steps) ==
    IF c.stack = <<>> \/ steps = 0 THEN c
    ELSE IF steps = 1 THEN rStep(h, c)
    ELSE rRun(h, rRun(h, c, steps \div 2), steps - steps \div 2)

\* t.MaxDepth().
MaxDepth(t) ==
    IF t.empty THEN 0
    ELSE rRun(t.heap, [stack |-> <<rFrame(Root)>>, ret |-> 0], MaxSteps).ret

----------------------------------------------------------------------------
(* The digest.  sha256 is a function nothing is known of but that it is a  *)
(* function of its input: Sum(x) brackets x, so that distinct inputs give   *)
(* distinct digests and a digest is no prefix of another.                  *)

HashOpen == 0 - 1
HashClose == 0 - 2
Sum(written) == <<HashOpen>> \o written \o <<HashClose>>

\* What hash(nil) does: it dereferences nil.
NilDeref == <<0 - 3>>

RECURSIVE hash(_, _)

\* Mutant: the right digest is written before the left.
hashRightFirst(h, p) ==
    IF p = NilPtr THEN NilDeref
    ELSE IF h[p].key # NilBytes THEN Sum(h[p].value)
    ELSE IF h[p].left = NilPtr THEN hash(h, h[p].right)
    ELSE IF h[p].right = NilPtr THEN hash(h, h[p].left)
    ELSE Sum(hash(h, h[p].right) \o hash(h, h[p].left))

\* hash(n), n at p.
hash(h, p) ==
    IF p = NilPtr THEN NilDeref
    ELSE IF h[p].key # NilBytes THEN Sum(h[p].value)
    ELSE IF h[p].left = NilPtr THEN hash(h, h[p].right)
    ELSE IF h[p].right = NilPtr THEN hash(h, h[p].left)
    ELSE Sum(hash(h, h[p].left) \o hash(h, h[p].right))

\* t.Hash().
Hash(t) == IF t.empty THEN Sum(<<>>) ELSE hash(t.heap, Root)

----------------------------------------------------------------------------
(* Print *)

\* fmt.Sprintf("%08b", b): the eight binary digits of b, highest first.
Sprintf08b(b) == [i \in 1..8 |-> (b \div Pow2(8 - i)) % 2]

\* formatBinary(bs): the digits of the bytes, joined.
RECURSIVE formatBinary(_)
formatBinary(bs) ==
    IF bs = <<>> THEN <<>>
    ELSE Sprintf08b(Head(bs)) \o formatBinary(Tail(bs))

\* traversePrint(n, prefix), n at p: the lines it prints, in order.
RECURSIVE traversePrint(_, _, _)
traversePrint(h, p, prefix) ==
    IF h[p].key # NilBytes
    THEN << [prefix |-> prefix, key |-> formatBinary(h[p].key), value |-> h[p].value] >>
    ELSE (IF h[p].left # NilPtr THEN traversePrint(h, h[p].left, Append(prefix, 0)) ELSE <<>>)
         \o
         (IF h[p].right # NilPtr THEN traversePrint(h, h[p].right, Append(prefix, 1)) ELSE <<>>)

\* t.Print().
TriePrint(t) == traversePrint(t.heap, Root, <<>>)

----------------------------------------------------------------------------
(* The program: a trie and a caller that adds keys drawn from callerKeys.  *)

trie == [heap |-> heap, empty |-> empty]

StoredKeys == { e.key : e \in latest }

\* Some leaf of t holds key.
OnLeaf(t, key) == ~t.empty /\ \E p \in 1..Len(t.heap) : t.heap[p].key = key

InitWith(keys) ==
    /\ heap = NewMerkleTrie.heap
    /\ empty = NewMerkleTrie.empty
    /\ callerKeys = keys
    /\ status = "ok"
    /\ latest = {}
    /\ lastKey = NilBytes
    /\ lastHit = FALSE
    /\ lastDeep = 0

\* t.Add(key, value).  An index out of range is a panic, a full stack is a
\* fatal error: either way the program stops, with the heap as it was left.
Add(key, value) ==
    /\ status = "ok"
    /\ key \in StoredKeys \/ Cardinality(StoredKeys) < MaxKeys
    /\ \E r \in {TrieAdd(trie, key, value)} :
           /\ heap' = r.heap
           /\ empty' = r.empty
           /\ status' = IF r.err = "" THEN "ok"
                        ELSE IF r.err = "index" THEN "panic" ELSE "fatal"
           /\ latest' = IF r.err = ""
                        THEN { e \in latest : e.key # key } \cup {[key |-> key, value |-> value]}
                        ELSE latest
           /\ lastDeep' = r.deep
    /\ lastKey' = key
    /\ lastHit' = OnLeaf(trie, key)
    /\ UNCHANGED callerKeys

Next == \E key \in callerKeys, value \in Values : Add(key, value)

\* Keys of one fixed short length.
Init == \E L \in ShortLens : InitWith(Keys(L))
Spec == Init /\ [][Next]_vars

\* Keys of one fixed length of 32 bytes or more.
InitLong == \E L \in LongLens : InitWith(LongKeys(L))
SpecLong == InitLong /\ [][Next]_vars

\* Keys of mixed short lengths.
InitAnyLen == InitWith(MixedKeys)
SpecAnyLen == InitAnyLen /\ [][Next]_vars

----------------------------------------------------------------------------
(* Properties *)

Nodes == 1..Len(heap)
IsLeaf(n) == n.key # NilBytes
Lines == TriePrint(trie)

\* Bit i of key, i counted from 0: bit (7 - i mod 8) of byte (i div 8).
KeyBit(key, i) == (key[(i \div 8) + 1] \div Pow2(7 - (i % 8))) % 2

\* C2: after any Adds with fixed-length keys that returned, Print lists
\* exactly the inserted keys, each once, each with the value of its most
\* recent Add.
C2_PrintListsLatest ==
    status = "ok" =>
        \A lines \in {Lines} :
            /\ Len(lines) = Cardinality(latest)
            /\ { <<lines[i].key, lines[i].value>> : i \in 1..Len(lines) }
                 = { <<formatBinary(e.key), e.value>> : e \in latest }

\* Three keys are stored, the last Add replaced the value of a key that was
\* pushed below the root.
C2_Witness ==
    /\ status = "ok"
    /\ Cardinality(latest) = 3
    /\ lastHit
    /\ lastDeep > 1
    /\ \E e \in latest : e.value = <<1>>
    /\ \E e \in latest : e.value = <<2>>

\* C7: for every leaf, the edges from the root to it are the leading bits of
\* its key, most significant bit of byte 0 first: edge i is left (0) iff bit
\* i of the key is 0.
C7_PathEncodesKey ==
    status = "ok" =>
        \A lines \in {Lines} : \A j \in 1..Len(lines) :
            \E e \in latest :
                /\ formatBinary(e.key) = lines[j].key
                /\ Len(lines[j].prefix) <= 8 * Len(e.key)
                /\ \A i \in 0..(Len(lines[j].prefix) - 1) :
                       lines[j].prefix[i + 1] = KeyBit(e.key, i)

\* Two keys that agree on their first 15 bits lie 16 edges below the root,
\* one left and one right of the same node.
C7_Witness ==
    /\ status = "ok"
    /\ \E lines \in {Lines} :
          /\ \E i, j \in 1..Len(lines) :
                /\ Len(lines[i].prefix) = 16
                /\ Len(lines[j].prefix) = 16
                /\ lines[i].prefix[16] = 0
                /\ lines[j].prefix[16] = 1
          /\ \E j \in 1..Len(lines) : Len(lines[j].prefix) = 1 /\ lines[j].prefix[1] = 1

\* C8: between public operations every node is a leaf without children or
\* an internal node without key and value and with a child; the node with
\* neither is the root of the empty trie only, and hash never meets it.
C8_NodesWellFormed ==
    status = "ok" =>
        /\ \A p \in Nodes :
              LET n == heap[p]
              IN  \/ IsLeaf(n) /\ n.left = NilPtr /\ n.right = NilPtr
                  \/ /\ ~IsLeaf(n) /\ n.value = NilBytes
                     /\ n.left # NilPtr \/ n.right # NilPtr
                  \/ /\ ~IsLeaf(n) /\ n.value = NilBytes
                     /\ n.left = NilPtr /\ n.right = NilPtr
                     /\ p = Root /\ empty
        /\ empty => heap = NewMerkleTrie.heap
        /\ \A digest \in {Hash(trie)} :
              \A i \in 1..Len(digest) : digest[i] # NilDeref[1]

\* A leaf was demoted and its node now has two children.
C8_Witness ==
    /\ status = "ok"
    /\ ~empty
    /\ \E p \in Nodes : ~IsLeaf(heap[p]) /\ heap[p].left # NilPtr /\ heap[p].right # NilPtr
    /\ \E p \in Nodes : ~IsLeaf(heap[p]) /\ heap[p].left # NilPtr /\ heap[p].right = NilPtr
    /\ Cardinality(latest) = 3

\* The entries of a key-to-value map in some fixed order.
RECURSIVE SeqOf(_)
SeqOf(S) ==
    IF S = {} THEN <<>>
    ELSE LET e == CHOOSE x \in S : TRUE IN <<e>> \o SeqOf(S \ {e})

\* The trie after Add of each entry of es in turn, from t.
RECURSIVE AddAll(_, _)
AddAll(t, es) ==
    IF es = <<>> THEN t
    ELSE LET r == TrieAdd(t, Head(es).key, Head(es).value)
         IN  AddAll([heap |-> r.heap, empty |-> r.empty], Tail(es))

\* The trie built from the empty trie by adding the stored keys in the one
\* order SeqOf fixes for them.
Reference == AddAll(NewMerkleTrie, SeqOf(latest))

\* C1: whatever the order in which the keys of a set were added to a new
\* trie, Hash() and MaxDepth() are those of the trie built from the same
\* keys in one fixed order.
C1_OrderIndependent ==
    status = "ok" =>
        \A ref \in {Reference} :
            /\ Hash(trie) = Hash(ref)
            /\ MaxDepth(trie) = MaxDepth(ref)

\* Three keys were added in an order that laid the nodes out differently
\* from the fixed order, two of them below a demoted leaf.
C1_Witness ==
    /\ status = "ok"
    /\ Cardinality(latest) = 3
    /\ heap # Reference.heap
    /\ MaxDepth(trie) > 2

\* C3: an Add whose key is on a leaf replaces that leaf's value and nothing
\* else: no node is added, every other field of every node is as before,
\* and the call returns.
C3_OverwriteInPlace ==
    [][ lastHit' =>
          /\ status' = "ok"
          /\ empty' = empty
          /\ Len(heap') = Len(heap)
          /\ \A p \in Nodes :
                heap'[p] = IF heap[p].key = lastKey'
                           THEN [heap[p] EXCEPT
                                   !.value = (CHOOSE e \in latest' : e.key = lastKey').value]
                           ELSE heap[p]
      ]_vars

\* The last Add replaced <<1>> by <<2>> on a leaf below the root, other
\* leaves beside it.
C3_Witness ==
    /\ status = "ok"
    /\ lastHit
    /\ lastDeep > 0
    /\ Cardinality(latest) = 3
    /\ [key |-> lastKey, value |-> <<2>>] \in latest
    /\ \E e \in latest : e.key # lastKey /\ e.value = <<1>>

\* The digest of a key-to-value map m, read from bit i on.
RECURSIVE D(_, _)
D(m, i) ==
    IF m = {} THEN Sum(<<>>)
    ELSE IF Cardinality(m) = 1 THEN Sum((CHOOSE e \in m : TRUE).value)
    ELSE LET zero == { e \in m : KeyBit(e.key, i) = 0 }
             one == m \ zero
         IN  IF zero = {} THEN D(one, i + 1)
             ELSE IF one = {} THEN D(zero, i + 1)
             ELSE Sum(D(zero, i + 1) \o D(one, i + 1))

\* C4: Hash() is the digest D of the map from each key to its latest value:
\* Sum of nothing for no key, Sum(value) for one key, and for more the Sum
\* of the zero side's digest followed by the one side's, a side alone
\* passed through.
C4_HashIsReferenceDigest ==
    status = "ok" => Hash(trie) = D(latest, 0)

\* Three keys with values that differ, two of them on the zero side of the
\* first bit and split 16 edges down, one alone on the one side.
C4_Witness ==
    /\ status = "ok"
    /\ Cardinality(latest) = 3
    /\ \E a, b, c \in latest :
          /\ a.value # b.value
          /\ Len(a.key) = 2
          /\ KeyBit(a.key, 0) = 0 /\ KeyBit(b.key, 0) = 0 /\ KeyBit(c.key, 0) = 1
          /\ KeyBit(a.key, 15) = 0 /\ KeyBit(b.key, 15) = 1
    /\ Hash(trie) # Sum(<<>>)

\* C5: an Add that fails on a key too short for the byte a node inspects
\* leaves the trie as it was before the call.
C5_FailedAddLeavesTrie ==
    [][ status' = "panic" => heap' = heap /\ empty' = empty ]_vars

\* The first bit, counted from 0, at which two keys of one length differ.
FirstDiff(a, b) ==
    CHOOSE i \in 0..(8 * Len(a) - 1) :
        /\ KeyBit(a, i) # KeyBit(b, i)
        /\ \A j \in 0..(i - 1) : KeyBit(a, j) = KeyBit(b, j)

\* C6: a trie of one key has MaxDepth() 0, and a trie of two keys of one
\* length has MaxDepth() equal to the position of their first differing
\* bit plus 1, up to 8 times the key length.
C6_TwoKeysMaxDepth ==
    status = "ok" =>
        /\ Cardinality(latest) = 1 => MaxDepth(trie) = 0
        /\ Cardinality(latest) = 2 =>
              \A a, b \in latest :
                  a.key # b.key => MaxDepth(trie) = FirstDiff(a.key, b.key) + 1

\* C9: the root has level 0, a child's level is its parent's plus 1, and
\* the byte index and mask of a node are level/8 and 1 << (7 - level%8).
C9_LevelIsDepth ==
    status = "ok" =>
        /\ heap[Root].level = 0
        /\ \A p \in Nodes :
              /\ heap[p].left # NilPtr => heap[heap[p].left].level = heap[p].level + 1
              /\ heap[p].right # NilPtr => heap[heap[p].right].level = heap[p].level + 1
              /\ heap[p].number = heap[p].level \div 8
              /\ heap[p].bit = Pow2(7 - (heap[p].level % 8))

\* C10: an Add of a key of the length of the stored keys returns, and none
\* of its nested calls is on a node more than 8 times the key length below
\* the root.
C10_AddStaysWithinKeyBits ==
    lastKey # NilBytes =>
        /\ status # "fatal"
        /\ lastDeep <= 8 * Len(lastKey)

====
